---------------------------- MODULE Spec2Model ----------------------------
(***************************************************************************)
(* Story Launcher, src-tauri/src/lib.rs: the tool installation and update  *)
(* manager.  The state is the per-user directory ~/.story-tools (the       *)
(* config file, the apps directory, the tool's application bundle), the    *)
(* process-temporary directory, the release registry, and for every caller *)
(* the position of its command and that command's local variables.         *)
(*                                                                         *)
(* File names, release tags and version strings are sequences of           *)
(* one-character strings, so that suffix tests and prefix trimming are     *)
(* computed as the code computes them.  An Option<T> is a sequence of      *)
(* length at most one: None is << >>, Some(x) is <<x>>.                    *)
(***************************************************************************)
EXTENDS Naturals, Sequences, FiniteSets

(***************************************************************************)
(* Bounds of the model.                                                    *)
(***************************************************************************)
\* longest asset list of a release the registry serves to install/checkStatus
MaxAssets == 1
\* longest asset list handed to find_app_asset in the selection specification
MaxSelectAssets == 3

(***************************************************************************)
(* Strings.                                                                *)
(***************************************************************************)
None == << >>
Some(x) == <<x>>

\* str::ends_with
EndsWith(s, suffix) ==
    /\ Len(s) >= Len(suffix)
    /\ SubSeq(s, Len(s) - Len(suffix) + 1, Len(s)) = suffix

\* str::trim_start_matches(c): drops every leading occurrence of c
RECURSIVE TrimStartMatches(_, _)
TrimStartMatches(s, c) ==
    IF s # << >> /\ Head(s) = c THEN TrimStartMatches(Tail(s), c) ELSE s

S_APP_TAR_GZ == <<".", "a", "p", "p", ".", "t", "a", "r", ".", "g", "z">>
S_APP_ZIP    == <<".", "a", "p", "p", ".", "z", "i", "p">>
S_DMG        == <<".", "d", "m", "g">>
S_TAR_GZ     == <<".", "t", "a", "r", ".", "g", "z">>
S_ZIP        == <<".", "z", "i", "p">>

\* the tool identifiers a caller may pass: the one compiled in, and another
RESOLVE_SYNC == "resolve-sync"
ToolIds == {RESOLVE_SYNC, "other-tool"}
KnownTool(t) == t = RESOLVE_SYNC

(***************************************************************************)
(* Releases and assets.                                                    *)
(***************************************************************************)
N_TGZ   == <<"t">> \o S_APP_TAR_GZ
N_TGZ2  == <<"u">> \o S_APP_TAR_GZ
N_ZIP   == <<"z">> \o S_APP_ZIP
N_DMG   == <<"d">> \o S_DMG
N_SRC   == <<"s">> \o S_TAR_GZ
N_TXT   == <<"n", ".", "t", "x", "t">>
N_UPPER == <<"D", ".", "D", "M", "G">>

\* struct GitHubAsset
Asset(n, u) == [name |-> n, browser_download_url |-> u]

\* the assets of the releases the registry serves: one of each format, and
\* names that miss the three suffixes (a source tarball, other letter case)
RegistryAssets == {Asset(n, "a") : n \in {N_TGZ, N_ZIP, N_DMG, N_TXT, N_SRC, N_UPPER}}
\* the assets find_app_asset is handed in the selection specification: near
\* misses, two of a kind, and the same file name under two download URLs
SelectAssets ==
    {Asset(n, "a") : n \in {N_TGZ, N_TGZ2, N_ZIP, N_DMG, N_SRC, N_TXT, N_UPPER}}
        \cup {Asset(n, "b") : n \in {N_TGZ, N_ZIP, N_DMG}}

SeqsUpTo(S, n) == UNION {[1..k -> S] : k \in 0..n}

TAG_VV1 == <<"v", "v", "1">>
TAG_2   == <<"2">>
Tags == {TAG_VV1, TAG_2}

\* struct GitHubRelease
Release(tag, assets) == [tag_name |-> tag, assets |-> assets]
Releases == {Release(tag, as) : tag \in Tags, as \in SeqsUpTo(RegistryAssets, MaxAssets)}
SelectReleases == {Release(TAG_VV1, as) : as \in SeqsUpTo(SelectAssets, MaxSelectAssets)}

\* Iterator::find on the asset list: the first asset whose name ends with suffix
RECURSIVE FindBySuffix(_, _)
FindBySuffix(assets, suffix) ==
    IF assets = << >> THEN None
    ELSE IF EndsWith(Head(assets).name, suffix) THEN Some(Head(assets))
    ELSE FindBySuffix(Tail(assets), suffix)

\* Option::or_else
OrElse(opt, other) == IF opt # None THEN opt ELSE other

\* Variants of find_app_asset that the claims must tell from it: one that
\* prefers a disk image, and one that takes any tarball for a bundle archive.
find_app_asset_dmg_first(release) ==
    OrElse(FindBySuffix(release.assets, S_DMG),
           OrElse(FindBySuffix(release.assets, S_APP_ZIP),
                  FindBySuffix(release.assets, S_APP_TAR_GZ)))

find_app_asset_any_tarball(release) ==
    OrElse(FindBySuffix(release.assets, S_TAR_GZ),
           OrElse(FindBySuffix(release.assets, S_APP_ZIP),
                  FindBySuffix(release.assets, S_DMG)))

find_app_asset(release) ==
    OrElse(FindBySuffix(release.assets, S_APP_TAR_GZ),
           OrElse(FindBySuffix(release.assets, S_APP_ZIP),
                  FindBySuffix(release.assets, S_DMG)))

(***************************************************************************)
(* State.                                                                  *)
(***************************************************************************)
Procs == {"c1", "c2"}

VARIABLES
    configFile,  \* ~/.story-tools/config.json: [state, tools]
    appsDir,     \* whether ~/.story-tools/apps exists
    bundle,      \* apps/"Spellbook Resolve Sync.app": None or Some([tag, whole])
    tempFiles,   \* the names of the files present in std::env::temp_dir()
    attached,    \* whether the downloaded disk image is attached (mounted)
    otherVolume, \* whether another disk image is mounted under /Volumes/
    tmpUtf8,     \* whether the path of std::env::temp_dir() is valid UTF-8
    homeUtf8,    \* whether the path of dirs::home_dir() is valid UTF-8
    registry,    \* the releases the registry may publish as the latest one
    pc,          \* per caller: where its command stands
    frame,       \* per caller: the command and its local variables
    trace,       \* per caller: the effects the command has issued so far
    ret,         \* per caller: what the command returned, None while it runs
    prior        \* per caller: history of its last call, see Installed

vars ==
    <<configFile, appsDir, bundle, tempFiles, attached, otherVolume, tmpUtf8, homeUtf8,
      registry, pc, frame, trace, ret, prior>>
disk == <<configFile, appsDir, bundle, tempFiles>>
volumes == <<attached, otherVolume>>
\* what no command changes
env == <<tmpUtf8, homeUtf8, registry>>

\* struct ToolsConfig, and the three conditions of config.json
NoTools == << >>
ConfigAbsent == [state |-> "absent", tools |-> NoTools]
ConfigCorrupt == [state |-> "corrupt", tools |-> NoTools]
ConfigOk(tools) == [state |-> "ok", tools |-> tools]

\* HashMap::insert
Insert(tools, k, v) == [x \in DOMAIN tools \cup {k} |-> IF x = k THEN v ELSE tools[x]]

\* ToolsConfig::default() unless the file exists, reads and parses
load_config == IF configFile.state = "ok" THEN configFile.tools ELSE NoTools

\* Path::exists on get_app_path(RESOLVE_SYNC_APP_NAME)
AppPathExists == bundle # None

\* A variant that trusts the record and does not look at the disk.
is_tool_installed_by_record(tool_id) == tool_id \in DOMAIN load_config

is_tool_installed(tool_id) ==
    IF tool_id \notin DOMAIN load_config THEN FALSE
    ELSE IF KnownTool(tool_id) THEN AppPathExists
    ELSE FALSE

get_installed_version(tool_id) ==
    IF tool_id \in DOMAIN load_config THEN Some(load_config[tool_id]) ELSE None

\* struct ActionResult; a message is a sequence of strings
ActionResult(ok, msg) == [success |-> ok, message |-> msg]

\* the errors of get_latest_release, by the message each maps to
FetchErrors == {"Failed to create HTTP client", "Failed to fetch release info",
                "GitHub API rate limit exceeded", "No releases found",
                "GitHub API error", "Failed to parse release info"}

\* the results of get_latest_release: the release the registry holds at the
\* time of the request, or an error
FetchOutcomes ==
    {[ok |-> TRUE, release |-> r, error |-> ""] : r \in Releases}
        \cup {[ok |-> FALSE, release |-> Release(<< >>, << >>), error |-> e] : e \in FetchErrors}

\* the results a request to the registry can have in this run
Served == {f \in FetchOutcomes : f.ok => f.release \in registry}

\* A variant that compares the versions without asking whether the tool is
\* installed: a tool with no recorded version differs from every release.
ToolStatusOf_by_version(tool_id, fetched) ==
    IF ~KnownTool(tool_id)
    THEN [installed |-> FALSE, installed_version |-> None, latest_version |-> None,
          has_update |-> FALSE, error |-> Some("Unknown tool")]
    ELSE LET installed == is_tool_installed(tool_id)
             installed_version == get_installed_version(tool_id)
         IN  IF fetched.ok
             THEN LET latest_version == TrimStartMatches(fetched.release.tag_name, "v")
                  IN  [installed |-> installed, installed_version |-> installed_version,
                       latest_version |-> Some(latest_version),
                       has_update |-> installed_version # Some(latest_version),
                       error |-> None]
             ELSE [installed |-> installed, installed_version |-> installed_version,
                   latest_version |-> None, has_update |-> FALSE,
                   error |-> Some(fetched.error)]

\* the ToolStatus check_tool_status builds from what it read
ToolStatusOf(tool_id, fetched) ==
    IF ~KnownTool(tool_id)
    THEN [installed |-> FALSE, installed_version |-> None, latest_version |-> None,
          has_update |-> FALSE, error |-> Some("Unknown tool")]
    ELSE LET installed == is_tool_installed(tool_id)
             installed_version == get_installed_version(tool_id)
         IN  IF fetched.ok
             THEN LET latest_version == TrimStartMatches(fetched.release.tag_name, "v")
                      has_update ==
                          installed /\ (IF installed_version # None
                                        THEN installed_version[1] # latest_version
                                        ELSE FALSE)
                  IN  [installed |-> installed, installed_version |-> installed_version,
                       latest_version |-> Some(latest_version),
                       has_update |-> has_update, error |-> None]
             ELSE [installed |-> installed, installed_version |-> installed_version,
                   latest_version |-> None, has_update |-> FALSE,
                   error |-> Some(fetched.error)]

\* the local variables of a command that has just been invoked
NewFrame(cmd, tool_id) ==
    [cmd |-> cmd, tool_id |-> tool_id, release |-> None, asset |-> None,
     result |-> None, config |-> NoTools]

Returned == {"Idle", "Done", "Failed"}
CanInvoke(p) == pc[p] \in Returned


\* the call of p goes on at stage label with its locals now fr
Step(p, label, fr) ==
    /\ pc' = [pc EXCEPT ![p] = label]
    /\ frame' = [frame EXCEPT ![p] = fr]
    /\ UNCHANGED ret

Emit(p, events) == trace' = [trace EXCEPT ![p] = trace[p] \o events]

\* History, read by no guard.  prior[p] is Some([release, version]) from the
\* return of a successful install_tool call of p, naming the release it was
\* served and the version it recorded; it stays so through the call p makes
\* next while that call is an install_tool of the same tool that is served the
\* same release, and is None otherwise.
Installed(release, version) == Some([release |-> release, version |-> version])
Forget(p) == prior' = [prior EXCEPT ![p] = None]

\* the call of p returns value: its locals are gone
Return(p, label, value, history) ==
    /\ pc' = [pc EXCEPT ![p] = label]
    /\ ret' = [ret EXCEPT ![p] = Some(value)]
    /\ frame' = [frame EXCEPT ![p] = NewFrame(frame[p].cmd, frame[p].tool_id)]
    /\ prior' = [prior EXCEPT ![p] = history]

\* return ActionResult { success: false, message }
Fail(p, msg) == Return(p, "Failed", ActionResult(FALSE, msg), None)

(***************************************************************************)
(* install_tool, stage by stage.                                           *)
(***************************************************************************)
\* the match on tool_id that opens install_tool
InstallEntry(p, cmd, tool_id) ==
    /\ CanInvoke(p)
    /\ trace' = [trace EXCEPT ![p] = << >>]
    /\ IF KnownTool(tool_id)
       THEN /\ pc' = [pc EXCEPT ![p] = "EnsureDirs"]
            /\ frame' = [frame EXCEPT ![p] = NewFrame(cmd, tool_id)]
            /\ ret' = [ret EXCEPT ![p] = None]
            /\ UNCHANGED prior
       ELSE /\ pc' = [pc EXCEPT ![p] = "Failed"]
            /\ frame' = [frame EXCEPT ![p] = NewFrame(cmd, tool_id)]
            /\ ret' = [ret EXCEPT ![p] = Some(ActionResult(FALSE, <<"Unknown tool">>))]
            /\ Forget(p)
    /\ UNCHANGED <<disk, volumes, env>>

install_tool(p, tool_id) == InstallEntry(p, "install", tool_id)

\* update_tool is install_tool
update_tool(p, tool_id) == InstallEntry(p, "update", tool_id)

\* ensure_dirs(): create_dir_all succeeds on a directory that exists
EnsureDirs(p) ==
    /\ pc[p] = "EnsureDirs"
    /\ \E ok \in IF appsDir THEN {TRUE} ELSE BOOLEAN :
        /\ Emit(p, <<"ensure_dirs">>)
        /\ IF ok
           THEN /\ appsDir' = TRUE
                /\ Step(p, "Resolving", frame[p])
                /\ UNCHANGED prior
           ELSE /\ Fail(p, <<"Failed to create directories">>)
                /\ UNCHANGED appsDir
    /\ UNCHANGED <<configFile, bundle, tempFiles, volumes, env>>

\* get_latest_release(repo)
Resolving(p) ==
    /\ pc[p] = "Resolving"
    /\ \E fetched \in Served :
        /\ Emit(p, <<"get_latest_release">>)
        /\ IF fetched.ok
           THEN /\ Step(p, "Selecting", [frame[p] EXCEPT !.release = Some(fetched.release)])
                /\ IF prior[p] # None /\ prior[p][1].release = fetched.release
                   THEN UNCHANGED prior
                   ELSE Forget(p)
           ELSE Fail(p, <<fetched.error>>)
    /\ UNCHANGED <<disk, volumes, env>>

\* find_app_asset(&release)
Selecting(p) ==
    /\ pc[p] = "Selecting"
    /\ LET asset == find_app_asset(frame[p].release[1])
       IN  IF asset # None
           THEN /\ Step(p, "Downloading", [frame[p] EXCEPT !.asset = asset])
                /\ UNCHANGED prior
           ELSE Fail(p, <<"No compatible download found in release">>)
    /\ UNCHANGED <<disk, volumes, env, trace>>

\* temp_dir.join(&asset.name)
TempFile(p) == frame[p].asset[1].name

\* how download_file ends: its error message, and whether File::create ran
DownloadOutcomes ==
    {[ok |-> TRUE,  error |-> "",                             created |-> TRUE],
     [ok |-> FALSE, error |-> "Failed to create HTTP client", created |-> FALSE],
     [ok |-> FALSE, error |-> "Failed to download",           created |-> FALSE],
     [ok |-> FALSE, error |-> "Download failed",              created |-> FALSE],
     [ok |-> FALSE, error |-> "Failed to read download",      created |-> FALSE],
     [ok |-> FALSE, error |-> "Failed to create file",        created |-> FALSE],
     [ok |-> FALSE, error |-> "Failed to write file",         created |-> TRUE]}

\* A variant that clears the install directory before it downloads.
Downloading_into_cleared(p) ==
    /\ pc[p] = "Downloading"
    /\ \E out \in DownloadOutcomes :
        /\ Emit(p, <<"remove_dir_all", "download_file">>)
        /\ tempFiles' = IF out.created THEN tempFiles \cup {TempFile(p)} ELSE tempFiles
        /\ IF out.ok
           THEN Step(p, "RemovingOld", frame[p]) /\ UNCHANGED prior
           ELSE Fail(p, <<out.error>>)
    /\ bundle' = None
    /\ UNCHANGED <<configFile, appsDir, volumes, env>>

\* download_file(&asset.browser_download_url, &temp_file)
Downloading(p) ==
    /\ pc[p] = "Downloading"
    /\ \E out \in DownloadOutcomes :
        /\ Emit(p, <<"download_file">>)
        /\ tempFiles' = IF out.created THEN tempFiles \cup {TempFile(p)} ELSE tempFiles
        /\ IF out.ok
           THEN Step(p, "RemovingOld", frame[p]) /\ UNCHANGED prior
           ELSE Fail(p, <<out.error>>)
    /\ UNCHANGED <<configFile, appsDir, bundle, volumes, env>>

\* A variant that refuses to install over a bundle that is present.
RemovingOld_refuses(p) ==
    /\ pc[p] = "RemovingOld"
    /\ IF AppPathExists
       THEN Fail(p, <<"App already installed">>)
       ELSE Step(p, "Extracting", frame[p]) /\ UNCHANGED prior
    /\ UNCHANGED <<disk, volumes, env, trace>>

\* A variant that goes on to the extraction when the removal has failed.
RemovingOld_ignored(p) ==
    /\ pc[p] = "RemovingOld"
    /\ IF AppPathExists
       THEN \E out \in {"removed", "failed", "failed midway"} :
              /\ Emit(p, <<"remove_dir_all">>)
              /\ bundle' = IF out = "removed" THEN None
                           ELSE IF out = "failed" THEN bundle
                           ELSE Some([bundle[1] EXCEPT !.whole = FALSE])
              /\ Step(p, "Extracting", frame[p])
              /\ UNCHANGED prior
       ELSE /\ Step(p, "Extracting", frame[p])
            /\ UNCHANGED <<bundle, trace, prior>>
    /\ UNCHANGED <<configFile, appsDir, tempFiles, volumes, env>>

\* if app_path.exists() { fs::remove_dir_all(&app_path) }: a failed removal
\* may have deleted part of the tree
RemovingOld(p) ==
    /\ pc[p] = "RemovingOld"
    /\ IF AppPathExists
       THEN \E out \in {"removed", "failed", "failed midway"} :
              /\ Emit(p, <<"remove_dir_all">>)
              /\ IF out = "removed"
                 THEN /\ bundle' = None
                      /\ Step(p, "Extracting", frame[p])
                      /\ UNCHANGED prior
                 ELSE /\ bundle' = IF out = "failed" THEN bundle
                                   ELSE Some([bundle[1] EXCEPT !.whole = FALSE])
                      /\ Fail(p, <<"Failed to remove existing app">>)
       ELSE /\ Step(p, "Extracting", frame[p])
            /\ UNCHANGED <<bundle, trace, prior>>
    /\ UNCHANGED <<configFile, appsDir, tempFiles, volumes, env>>

\* Result<(), String>
Ok == [ok |-> TRUE, error |-> ""]
Err(e) == [ok |-> FALSE, error |-> e]

\* what the archive of the release the call resolved puts at app_path
Unpacked(p, whole) == Some([tag |-> frame[p].release[1].tag_name, whole |-> whole])

\* how an extractor ends: its result, and what is at app_path afterwards.  An
\* archive unpacks into apps/ under its own entry names: one that does not hold
\* the bundle under RESOLVE_SYNC_APP_NAME unpacks without error and leaves
\* app_path as it was.
extract_tar_gz(p) ==
    {[result |-> Err("Failed to open archive"), bundle |-> bundle],
     [result |-> Err("Failed to extract archive"), bundle |-> bundle],
     [result |-> Err("Failed to extract archive"), bundle |-> Unpacked(p, FALSE)],
     [result |-> Ok, bundle |-> Unpacked(p, TRUE)],
     [result |-> Ok, bundle |-> bundle]}

extract_zip(p) ==
    {[result |-> Err("Failed to open archive"), bundle |-> bundle],
     [result |-> Err("Failed to read zip"), bundle |-> bundle],
     [result |-> Ok, bundle |-> Unpacked(p, TRUE)],
     [result |-> Ok, bundle |-> bundle]}
        \cup {[result |-> Err(e), bundle |-> b] :
                e \in {"Failed to read zip entry", "Failed to create directory",
                       "Failed to create file", "Failed to write file"},
                b \in {bundle, Unpacked(p, FALSE)}}

\* the volumes the lookup in the output of `hdiutil info -plist` can yield: the
\* first line that holds "/Volumes/", of this image or of another one
MountPoints == {"own"} \cup (IF otherVolume THEN {"other"} ELSE {})
Cp(mount_point) == IF mount_point = "own" THEN "cp" ELSE "cp /Volumes/other"
Detach(mount_point) ==
    IF mount_point = "own" THEN "hdiutil detach" ELSE "hdiutil detach /Volumes/other"

\* what a bundle of the same name copied from another volume is: the files of
\* no release this call resolved
OTHER_TAG == <<"o">>

\* how `cp -R src dest` ends, by the volume src lies on
CopyOutcomes(p, mount_point) ==
    LET copied(whole) == IF mount_point = "own" THEN Unpacked(p, whole)
                         ELSE Some([tag |-> OTHER_TAG, whole |-> whole])
    IN  {[result |-> Err("Failed to copy app: spawn"), bundle |-> bundle],
         [result |-> Err("Failed to copy app from DMG"), bundle |-> bundle],
         [result |-> Err("Failed to copy app from DMG"), bundle |-> copied(FALSE)],
         [result |-> Ok, bundle |-> copied(TRUE)]}

\* A variant that detaches the image only after a copy that succeeded.
extract_from_dmg_detach_on_success(p) ==
    LET Outcome(events, att, other, result, b, panicked) ==
            [events |-> events, attached |-> att, otherVolume |-> other,
             result |-> result, bundle |-> b, panicked |-> panicked]
    IN  IF ~tmpUtf8
        THEN {Outcome(<< >>, attached, otherVolume, Ok, bundle, TRUE)}
        ELSE {Outcome(<<"hdiutil attach">>, attached, otherVolume, Err(e), bundle, FALSE) :
                e \in {"Failed to mount DMG: spawn", "Failed to mount DMG"}}
             \cup
             {Outcome(<<"hdiutil attach", "hdiutil info">>, TRUE, otherVolume, Err(e),
                      bundle, FALSE) :
                e \in {"Failed to get mount info", "Failed to find mount point"}}
             \cup
             (IF ~homeUtf8
              THEN {Outcome(<<"hdiutil attach", "hdiutil info">>, TRUE, otherVolume, Ok,
                            bundle, TRUE)}
              ELSE UNION {
                     {IF out.result.ok
                      THEN Outcome(<<"hdiutil attach", "hdiutil info", Cp(mount_point),
                                     Detach(mount_point)>>,
                                   IF mount_point = "own" THEN ~detached ELSE TRUE,
                                   IF mount_point = "own" THEN otherVolume ELSE ~detached,
                                   out.result, out.bundle, FALSE)
                      ELSE Outcome(<<"hdiutil attach", "hdiutil info", Cp(mount_point)>>,
                                   TRUE, otherVolume, out.result, out.bundle, FALSE) :
                        detached \in BOOLEAN, out \in CopyOutcomes(p, mount_point)} :
                     mount_point \in MountPoints})

\* extract_from_dmg: the hdiutil and cp commands it ran, what is mounted
\* afterwards, its result and what is at app_path, or that it panicked.  The
\* two to_str().unwrap() calls panic on a path that is not UTF-8: on dmg_path
\* before the attach, on dest after the mount point is found.  The two early
\* returns after the attach (`?` on the info command and on the mount point)
\* come before the detach; the detach's own outcome is dropped.
extract_from_dmg(p) ==
    LET Outcome(events, att, other, result, b, panicked) ==
            [events |-> events, attached |-> att, otherVolume |-> other,
             result |-> result, bundle |-> b, panicked |-> panicked]
    IN  IF ~tmpUtf8
        THEN {Outcome(<< >>, attached, otherVolume, Ok, bundle, TRUE)}
        ELSE {Outcome(<<"hdiutil attach">>, attached, otherVolume, Err(e), bundle, FALSE) :
                e \in {"Failed to mount DMG: spawn", "Failed to mount DMG"}}
             \cup
             {Outcome(<<"hdiutil attach", "hdiutil info">>, TRUE, otherVolume, Err(e),
                      bundle, FALSE) :
                e \in {"Failed to get mount info", "Failed to find mount point"}}
             \cup
             (IF ~homeUtf8
              THEN {Outcome(<<"hdiutil attach", "hdiutil info">>, TRUE, otherVolume, Ok,
                            bundle, TRUE)}
              ELSE UNION {
                     {Outcome(<<"hdiutil attach", "hdiutil info", Cp(mount_point),
                                Detach(mount_point)>>,
                              IF mount_point = "own" THEN ~detached ELSE TRUE,
                              IF mount_point = "own" THEN otherVolume ELSE ~detached,
                              out.result, out.bundle, FALSE) :
                        detached \in BOOLEAN, out \in CopyOutcomes(p, mount_point)} :
                     mount_point \in MountPoints})

\* A variant of the dispatch that knows the two archive formats only.
Extractor_archives_only(name) ==
    IF EndsWith(name, S_TAR_GZ) THEN "tar.gz"
    ELSE IF EndsWith(name, S_ZIP) THEN "zip"
    ELSE "unsupported"

\* the extractor install_tool picks by the suffix of the asset's name
Extractor(name) ==
    IF EndsWith(name, S_TAR_GZ) THEN "tar.gz"
    ELSE IF EndsWith(name, S_ZIP) THEN "zip"
    ELSE IF EndsWith(name, S_DMG) THEN "dmg"
    ELSE "unsupported"

\* let result = if asset.name.ends_with(..) { extract_..(..) } ...
Extracting(p) ==
    /\ pc[p] = "Extracting"
    /\ LET kind == Extractor(TempFile(p))
       IN  CASE kind = "tar.gz" ->
                  \E out \in extract_tar_gz(p) :
                    /\ Emit(p, <<"extract_tar_gz">>)
                    /\ Step(p, "CleaningUp", [frame[p] EXCEPT !.result = Some(out.result)])
                    /\ bundle' = out.bundle
                    /\ UNCHANGED volumes
             [] kind = "zip" ->
                  \E out \in extract_zip(p) :
                    /\ Emit(p, <<"extract_zip">>)
                    /\ Step(p, "CleaningUp", [frame[p] EXCEPT !.result = Some(out.result)])
                    /\ bundle' = out.bundle
                    /\ UNCHANGED volumes
             [] kind = "dmg" ->
                  \E out \in extract_from_dmg(p) :
                    /\ Emit(p, out.events)
                    /\ IF out.panicked
                       THEN Step(p, "Panicked", frame[p])
                       ELSE Step(p, "CleaningUp",
                                 [frame[p] EXCEPT !.result = Some(out.result)])
                    /\ bundle' = out.bundle
                    /\ attached' = out.attached
                    /\ otherVolume' = out.otherVolume
             [] OTHER ->
                    /\ Step(p, "CleaningUp",
                            [frame[p] EXCEPT !.result = Some(Err("Unsupported archive format"))])
                    /\ UNCHANGED <<trace, bundle, volumes>>
    /\ UNCHANGED <<configFile, appsDir, tempFiles, env, prior>>

\* A variant that drops the extractor's result with the temp file and goes on.
CleaningUp_unchecked(p) ==
    /\ pc[p] = "CleaningUp"
    /\ \E removed \in BOOLEAN :
        /\ Emit(p, <<"remove_file">>)
        /\ tempFiles' = IF removed THEN tempFiles \ {TempFile(p)} ELSE tempFiles
    /\ Step(p, "FixingUp", frame[p])
    /\ UNCHANGED <<configFile, appsDir, bundle, volumes, env, prior>>

\* A variant that removes the temp file only after an extraction that
\* succeeded.
CleaningUp_on_success(p) ==
    /\ pc[p] = "CleaningUp"
    /\ IF frame[p].result[1].ok
       THEN /\ \E removed \in BOOLEAN :
                 /\ Emit(p, <<"remove_file">>)
                 /\ tempFiles' = IF removed THEN tempFiles \ {TempFile(p)} ELSE tempFiles
            /\ Step(p, "FixingUp", frame[p])
            /\ UNCHANGED prior
       ELSE /\ Fail(p, <<frame[p].result[1].error>>)
            /\ UNCHANGED <<tempFiles, trace>>
    /\ UNCHANGED <<configFile, appsDir, bundle, volumes, env>>

\* let _ = fs::remove_file(&temp_file); if let Err(e) = result { return .. }
CleaningUp(p) ==
    /\ pc[p] = "CleaningUp"
    /\ \E removed \in BOOLEAN :
        /\ Emit(p, <<"remove_file">>)
        /\ tempFiles' = IF removed THEN tempFiles \ {TempFile(p)} ELSE tempFiles
    /\ IF frame[p].result[1].ok
       THEN Step(p, "FixingUp", frame[p]) /\ UNCHANGED prior
       ELSE Fail(p, <<frame[p].result[1].error>>)
    /\ UNCHANGED <<configFile, appsDir, bundle, volumes, env>>

\* let _ = Command::new("xattr").args(["-cr", ..]).output()
FixingUp(p) ==
    /\ pc[p] = "FixingUp"
    /\ Emit(p, <<"xattr">>)
    /\ Step(p, "Loading", frame[p])
    /\ UNCHANGED <<disk, volumes, env, prior>>

\* let mut config = load_config(); config.tools.insert(tool_id, version)
Loading(p) ==
    /\ pc[p] = "Loading"
    /\ LET version == TrimStartMatches(frame[p].release[1].tag_name, "v")
       IN  Step(p, "Persisting",
                [frame[p] EXCEPT !.config = Insert(load_config, frame[p].tool_id, version)])
    /\ Emit(p, <<"load_config">>)
    /\ UNCHANGED <<disk, volumes, env, prior>>

\* A variant that swallows the error of the write.
save_config_swallowed(config) ==
    {[ok |-> TRUE, appsDir |-> TRUE, configFile |-> ConfigOk(config)],
     [ok |-> TRUE, appsDir |-> TRUE, configFile |-> configFile],
     [ok |-> TRUE, appsDir |-> TRUE, configFile |-> ConfigCorrupt]}

\* save_config: ensure_dirs()?, then fs::write, which truncates the file
\* before it writes
save_config(config) ==
    {[ok |-> TRUE, appsDir |-> TRUE, configFile |-> ConfigOk(config)],
     [ok |-> FALSE, appsDir |-> TRUE, configFile |-> configFile],
     [ok |-> FALSE, appsDir |-> TRUE, configFile |-> ConfigCorrupt]}
        \cup IF appsDir THEN {}
             ELSE {[ok |-> FALSE, appsDir |-> FALSE, configFile |-> configFile]}

\* if let Err(e) = save_config(&config) { return .. }; ActionResult { success: true, .. }
Persisting(p) ==
    /\ pc[p] = "Persisting"
    /\ \E out \in save_config(frame[p].config) :
        /\ Emit(p, <<"save_config">>)
        /\ appsDir' = out.appsDir
        /\ configFile' = out.configFile
        /\ LET version == frame[p].config[frame[p].tool_id]
           IN  IF out.ok
               THEN Return(p, "Done", ActionResult(TRUE, <<"Installed version">> \o version),
                           Installed(frame[p].release[1], version))
               ELSE Fail(p, <<"Failed to save config">>)
    /\ UNCHANGED <<bundle, tempFiles, volumes, env>>

(***************************************************************************)
(* The other commands.                                                     *)
(***************************************************************************)
\* a command that runs from invocation to return in one step
Call(p, cmd, tool_id, events, label, value) ==
    /\ CanInvoke(p)
    /\ pc' = [pc EXCEPT ![p] = label]
    /\ frame' = [frame EXCEPT ![p] = NewFrame(cmd, tool_id)]
    /\ trace' = [trace EXCEPT ![p] = events]
    /\ ret' = [ret EXCEPT ![p] = Some(value)]
    /\ Forget(p)

\* A variant whose load of the record writes a default config.json where it
\* finds none it can parse.
check_tool_status_healing(p, tool_id) ==
    /\ IF KnownTool(tool_id)
       THEN \E fetched \in Served :
              Call(p, "status", tool_id,
                   <<"load_config", "load_config", "get_latest_release">>,
                   "Done", ToolStatusOf(tool_id, fetched))
       ELSE Call(p, "status", tool_id, << >>, "Done",
                 ToolStatusOf(tool_id, CHOOSE f \in FetchOutcomes : TRUE))
    /\ configFile' = IF KnownTool(tool_id) /\ configFile.state # "ok"
                     THEN ConfigOk(NoTools) ELSE configFile
    /\ UNCHANGED <<appsDir, bundle, tempFiles, volumes, env>>

check_tool_status(p, tool_id) ==
    /\ IF KnownTool(tool_id)
       THEN \E fetched \in Served :
              Call(p, "status", tool_id,
                   <<"load_config", "load_config", "get_latest_release">>,
                   "Done", ToolStatusOf(tool_id, fetched))
       ELSE Call(p, "status", tool_id, << >>, "Done",
                 ToolStatusOf(tool_id, CHOOSE f \in FetchOutcomes : TRUE))
    /\ UNCHANGED <<disk, volumes, env>>

\* A variant that asks the record, as check_tool_status does, whether the tool
\* is installed.
launch_tool_by_record(p, tool_id) ==
    /\ IF ~KnownTool(tool_id)
       THEN Call(p, "launch", tool_id, << >>, "Failed",
                 ActionResult(FALSE, <<"Unknown tool">>))
       ELSE IF ~is_tool_installed(tool_id)
       THEN Call(p, "launch", tool_id, << >>, "Failed",
                 ActionResult(FALSE, <<"App not installed">>))
       ELSE \E spawned \in BOOLEAN :
              IF spawned
              THEN Call(p, "launch", tool_id, <<"open">>, "Done",
                        ActionResult(TRUE, <<"Launched app">>))
              ELSE Call(p, "launch", tool_id, <<"open">>, "Failed",
                        ActionResult(FALSE, <<"Failed to launch">>))
    /\ UNCHANGED <<disk, volumes, env>>

\* match tool_id; if !app_path.exists() { return .. }; Command::new("open").spawn()
launch_tool(p, tool_id) ==
    /\ IF ~KnownTool(tool_id)
       THEN Call(p, "launch", tool_id, << >>, "Failed",
                 ActionResult(FALSE, <<"Unknown tool">>))
       ELSE IF ~AppPathExists
       THEN Call(p, "launch", tool_id, << >>, "Failed",
                 ActionResult(FALSE, <<"App not installed">>))
       ELSE \E spawned \in BOOLEAN :
              IF spawned
              THEN Call(p, "launch", tool_id, <<"open">>, "Done",
                        ActionResult(TRUE, <<"Launched app">>))
              ELSE Call(p, "launch", tool_id, <<"open">>, "Failed",
                        ActionResult(FALSE, <<"Failed to launch">>))
    /\ UNCHANGED <<disk, volumes, env>>

\* A variant that returns the keys of the record unfiltered.
get_installed_tools_keys(p) ==
    /\ Call(p, "list", "", <<"load_config">>, "Done", DOMAIN load_config)
    /\ UNCHANGED <<disk, volumes, env>>

\* config.tools.keys().filter(|tool_id| is_tool_installed(tool_id)).collect()
get_installed_tools(p) ==
    /\ Call(p, "list", "", <<"load_config">>, "Done",
            {tool_id \in DOMAIN load_config : is_tool_installed(tool_id)})
    /\ UNCHANGED <<disk, volumes, env>>

(***************************************************************************)
(* Specifications.                                                         *)
(***************************************************************************)
\* a config.json that names a tool this build does not know
ForeignConfig == ConfigOk(Insert(NoTools, "other-tool", <<"1">>))

Init ==
    /\ configFile \in {ConfigAbsent, ForeignConfig}
    /\ appsDir = FALSE
    /\ bundle = None
    /\ tempFiles = {}
    /\ attached = FALSE
    /\ otherVolume = FALSE
    /\ tmpUtf8 \in BOOLEAN
    /\ homeUtf8 = TRUE
    /\ registry = Releases
    /\ pc = [p \in Procs |-> "Idle"]
    /\ frame = [p \in Procs |-> NewFrame("", "")]
    /\ trace = [p \in Procs |-> << >>]
    /\ ret = [p \in Procs |-> None]
    /\ prior = [p \in Procs |-> None]

\* one step of the install_tool call of caller p
InstallStep(p) ==
    \/ EnsureDirs(p)
    \/ Resolving(p)
    \/ Selecting(p)
    \/ Downloading(p)
    \/ RemovingOld(p)
    \/ Extracting(p)
    \/ CleaningUp(p)
    \/ FixingUp(p)
    \/ Loading(p)
    \/ Persisting(p)

\* a command invoked by caller p
Invoke(p) ==
    \/ \E t \in ToolIds : install_tool(p, t)
    \/ \E t \in ToolIds : update_tool(p, t)
    \/ \E t \in ToolIds : check_tool_status(p, t)
    \/ \E t \in ToolIds : launch_tool(p, t)
    \/ get_installed_tools(p)

\* the GUI shell, the only caller, issues one command at a time
Shell == "c1"

Next ==
    \/ Invoke(Shell)
    \/ InstallStep(Shell)

Spec == Init /\ [][Next]_vars

\* the releases of a registry that publishes the tool as a disk image
DmgReleases == {Release(tag, <<Asset(N_DMG, "a")>>) : tag \in Tags}

\* the commands run against a registry of disk images, on a machine where
\* another image may be mounted and the temp and home paths may not be UTF-8
InitDmg ==
    /\ configFile \in {ConfigAbsent, ForeignConfig}
    /\ appsDir = FALSE
    /\ bundle = None
    /\ tempFiles = {}
    /\ attached = FALSE
    /\ otherVolume \in BOOLEAN
    /\ tmpUtf8 \in BOOLEAN
    /\ homeUtf8 \in BOOLEAN
    /\ registry = DmgReleases
    /\ pc = [p \in Procs |-> "Idle"]
    /\ frame = [p \in Procs |-> NewFrame("", "")]
    /\ trace = [p \in Procs |-> << >>]
    /\ ret = [p \in Procs |-> None]
    /\ prior = [p \in Procs |-> None]

SpecDmg == InitDmg /\ [][Next]_vars

\* the releases of a registry that publishes the tool as a tar.gz archive
TarballReleases == {Release(tag, <<Asset(N_TGZ, "a")>>) : tag \in Tags}

\* two install calls of the same tool run at the same time, each on a thread
\* of its own, on a machine with nothing installed: both have been invoked
InitConcurrent ==
    /\ configFile = ConfigAbsent
    /\ appsDir = FALSE
    /\ bundle = None
    /\ tempFiles = {}
    /\ attached = FALSE
    /\ otherVolume = FALSE
    /\ tmpUtf8 = TRUE
    /\ homeUtf8 = TRUE
    /\ registry = TarballReleases
    /\ pc = [p \in Procs |-> "EnsureDirs"]
    /\ frame = [p \in Procs |-> NewFrame("install", RESOLVE_SYNC)]
    /\ trace = [p \in Procs |-> << >>]
    /\ ret = [p \in Procs |-> None]
    /\ prior = [p \in Procs |-> None]

\* the steps of the two calls interleave in any order
NextConcurrent == \E p \in Procs : InstallStep(p)

SpecConcurrent == InitConcurrent /\ [][NextConcurrent]_vars

\* find_app_asset applied to every asset list of the selection bounds: the
\* call stands at the selection stage with a release in hand
InitSelect ==
    /\ configFile = ConfigAbsent
    /\ appsDir = TRUE
    /\ bundle = None
    /\ tempFiles = {}
    /\ attached = FALSE
    /\ otherVolume = FALSE
    /\ tmpUtf8 = TRUE
    /\ homeUtf8 = TRUE
    /\ registry = SelectReleases
    /\ pc = [p \in Procs |-> IF p = Shell THEN "Selecting" ELSE "Idle"]
    /\ \E r \in SelectReleases :
         frame = [p \in Procs |-> IF p = Shell
                                  THEN [NewFrame("install", RESOLVE_SYNC) EXCEPT !.release = Some(r)]
                                  ELSE NewFrame("", "")]
    /\ trace = [p \in Procs |-> IF p = Shell THEN <<"ensure_dirs", "get_latest_release">>
                                ELSE << >>]
    /\ ret = [p \in Procs |-> None]
    /\ prior = [p \in Procs |-> None]

SpecSelect == InitSelect /\ [][Selecting(Shell)]_vars

(***************************************************************************)
(* The claims.                                                             *)
(***************************************************************************)
\* the positions in an asset list whose file name ends with suffix
Matching(assets, suffix) == {i \in 1..Len(assets) : EndsWith(assets[i].name, suffix)}
Least(S) == CHOOSE i \in S : \A j \in S : i <= j

\* the asset the preference order names: the first .app.tar.gz in list order,
\* failing that the first .app.zip, failing that the first .dmg
Preferred(assets) ==
    IF Matching(assets, S_APP_TAR_GZ) # {}
    THEN Some(assets[Least(Matching(assets, S_APP_TAR_GZ))])
    ELSE IF Matching(assets, S_APP_ZIP) # {}
    THEN Some(assets[Least(Matching(assets, S_APP_ZIP))])
    ELSE IF Matching(assets, S_DMG) # {}
    THEN Some(assets[Least(Matching(assets, S_DMG))])
    ELSE None

NoCompatibleAsset == ActionResult(FALSE, <<"No compatible download found in release">>)

\* C1: the selection stage hands on the first .app.tar.gz asset in list order,
\* else the first .app.zip, else the first .dmg, and fails when the list holds
\* none of the three; a list that holds a .app.tar.gz and a .dmg yields the
\* tar.gz whatever their positions.
C1_SelectsPreferred ==
    [][\A p \in Procs :
         pc[p] = "Selecting" /\ pc'[p] # "Selecting" =>
            LET assets == frame[p].release[1].assets
            IN  /\ Preferred(assets) # None =>
                      pc'[p] = "Downloading" /\ frame'[p].asset = Preferred(assets)
                /\ Preferred(assets) = None => pc'[p] = "Failed"
                /\ Matching(assets, S_APP_TAR_GZ) # {} /\ Matching(assets, S_DMG) # {} =>
                      frame'[p].asset # None
                      /\ EndsWith(frame'[p].asset[1].name, S_APP_TAR_GZ)]_vars

\* a release lists a .dmg ahead of two .app.tar.gz assets and the first of the
\* two tar.gz assets has been selected
C1_Witness ==
    /\ pc[Shell] = "Downloading"
    /\ Len(frame[Shell].release[1].assets) = 3
    /\ frame[Shell].release[1].assets[1].name = N_DMG
    /\ frame[Shell].release[1].assets[2].name = N_TGZ2
    /\ frame[Shell].release[1].assets[3].name = N_TGZ
    /\ frame[Shell].asset = Some(Asset(N_TGZ2, "a"))

Range(seq) == {seq[i] : i \in DOMAIN seq}
InstallCmds == {"install", "update"}

\* a release tag with every leading "v" taken off
Stripped(tag) ==
    LET n == CHOOSE k \in 0..Len(tag) :
                /\ \A i \in 1..k : tag[i] = "v"
                /\ k = Len(tag) \/ tag[k + 1] # "v"
    IN  SubSeq(tag, n + 1, Len(tag))

\* C2: when an install or update call of a known tool has returned success,
\* a checkStatus of that tool made next reports installed = true and an
\* installedVersion equal to the tag of the release installed, leading "v"
\* stripped, whatever the registry answers.
C2_StatusAfterInstall ==
    \A p \in Procs :
        pc[p] = "Done" /\ frame[p].cmd \in InstallCmds =>
            \A fetched \in FetchOutcomes :
                LET status == ToolStatusOf(frame[p].tool_id, fetched)
                IN  /\ status.installed
                    /\ status.installed_version
                          = Some(Stripped(prior[p][1].release.tag_name))

\* no asset of the list ends with one of the three suffixes
NoSuffixMatches(assets) ==
    \A i \in 1..Len(assets) :
        /\ ~EndsWith(assets[i].name, S_APP_TAR_GZ)
        /\ ~EndsWith(assets[i].name, S_APP_ZIP)
        /\ ~EndsWith(assets[i].name, S_DMG)

\* C3: an install call served a release none of whose assets ends with
\* .app.tar.gz, .app.zip or .dmg returns the failure "No compatible download
\* found in release" from the selection stage, with no download request issued
\* and no temp file created by the call.
C3_NoAssetNoDownload ==
    /\ [](\A p \in Procs :
            pc[p] = "Failed" /\ frame[p].cmd \in InstallCmds
                /\ ret[p] = Some(NoCompatibleAsset)
            => "download_file" \notin Range(trace[p]))
    /\ [][\A p \in Procs :
            pc[p] = "Selecting" /\ pc'[p] # "Selecting"
                /\ NoSuffixMatches(frame[p].release[1].assets)
            => /\ pc'[p] = "Failed"
               /\ ret'[p] = Some(NoCompatibleAsset)
               /\ "download_file" \notin Range(trace'[p])
               /\ tempFiles' = tempFiles]_vars

\* an install call has failed for lack of a compatible asset, having asked the
\* registry and nothing more
C3_Witness ==
    /\ pc[Shell] = "Failed"
    /\ frame[Shell].cmd = "install"
    /\ ret[Shell] = Some(NoCompatibleAsset)
    /\ trace[Shell] = <<"ensure_dirs", "get_latest_release">>
    /\ tempFiles = {}

\* C4: config.json changes only in the persist stage of an install or update
\* call whose extraction succeeded; a call that failed at any earlier stage
\* never reached that stage, and so leaves the record as it found it.
C4_RecordOnlyAfterExtraction ==
    /\ [](\A p \in Procs :
            pc[p] = "Failed" /\ frame[p].cmd \in InstallCmds
                /\ ret[p][1].message # <<"Failed to save config">>
            => "save_config" \notin Range(trace[p]))
    /\ [][configFile' # configFile =>
            \E p \in Procs :
                /\ pc[p] = "Persisting"
                /\ frame[p].cmd \in InstallCmds
                /\ frame[p].result = Some(Ok)
                /\ pc'[p] \in {"Done", "Failed"}]_vars

\* the record stands at version 1 and an update call has just failed for lack
\* of a compatible asset
C4_Witness ==
    /\ pc[Shell] = "Failed"
    /\ frame[Shell].cmd = "update"
    /\ ret[Shell] = Some(NoCompatibleAsset)
    /\ get_installed_version(RESOLVE_SYNC) = Some(<<"1">>)
    /\ bundle # None

\* C5: the persist stage returns success only when config.json holds the new
\* record; when the save fails the call returns the failure "Failed to save
\* config", the bundle the extraction left is untouched, and the record does
\* not come to hold the new version.
C5_SaveFailureReported ==
    [][\A p \in Procs :
         pc[p] = "Persisting" /\ pc'[p] # "Persisting" =>
            LET tool_id == frame[p].tool_id
                version == frame[p].config[tool_id]
            IN  \/ /\ pc'[p] = "Done"
                   /\ ret'[p][1].success
                   /\ configFile' = ConfigOk(frame[p].config)
                \/ /\ pc'[p] = "Failed"
                   /\ ret'[p] = Some(ActionResult(FALSE, <<"Failed to save config">>))
                   /\ bundle' = bundle
                   /\ get_installed_version(tool_id)' = Some(version)
                        => get_installed_version(tool_id) = Some(version)]_vars

\* a first install has extracted the bundle of release 2, the save has failed,
\* and the call has returned the failure with nothing recorded
C5_Witness ==
    /\ pc[Shell] = "Failed"
    /\ frame[Shell].cmd = "install"
    /\ ret[Shell] = Some(ActionResult(FALSE, <<"Failed to save config">>))
    /\ bundle = Some([tag |-> TAG_2, whole |-> TRUE])
    /\ get_installed_version(RESOLVE_SYNC) = None

\* the failures whose cause lies outside install_tool: the registry, the
\* download, the filesystem, an external process
ExternalFailures ==
    {<<e>> : e \in FetchErrors}
        \cup {<<out.error>> : out \in {o \in DownloadOutcomes : ~o.ok}}
        \cup {<<"Failed to create directories">>, <<"Failed to remove existing app">>,
              <<"Failed to open archive">>, <<"Failed to extract archive">>,
              <<"Failed to read zip">>, <<"Failed to read zip entry">>,
              <<"Failed to create directory">>, <<"Failed to create file">>,
              <<"Failed to write file">>, <<"Failed to mount DMG: spawn">>,
              <<"Failed to mount DMG">>, <<"Failed to get mount info">>,
              <<"Failed to find mount point">>, <<"Failed to copy app: spawn">>,
              <<"Failed to copy app from DMG">>, <<"Failed to save config">>}

\* C6: an update (or install) call that directly follows a successful one for
\* the same tool and is served the same release returns no error of its own
\* making (it fails only where the registry, the download, the filesystem or an
\* external process fails), and when it succeeds the version recorded is the
\* one the first call recorded.
C6_UpdateIdempotent ==
    [][\A p \in Procs :
         prior[p] # None /\ frame[p].cmd \in InstallCmds /\ pc[p] \notin Returned =>
            /\ pc'[p] = "Failed" => ret'[p][1].message \in ExternalFailures
            /\ pc'[p] = "Done" =>
                  /\ ret'[p][1].success
                  /\ get_installed_version(frame[p].tool_id)'
                        = Some(prior[p][1].version)]_vars

\* an update call that follows a successful one on the same release has
\* removed the bundle the first one installed, extracted again, and is about
\* to persist
C6_Witness ==
    /\ pc[Shell] = "Persisting"
    /\ frame[Shell].cmd = "update"
    /\ prior[Shell] # None
    /\ prior[Shell][1].release = frame[Shell].release[1]
    /\ "remove_dir_all" \in Range(trace[Shell])
    /\ get_installed_version(RESOLVE_SYNC) = Some(prior[Shell][1].version)

\* the ToolStatus a returned checkStatus call of p reported
StatusReturned(p) == pc[p] = "Done" /\ frame[p].cmd = "status"

\* C7: a checkStatus call of the known tool that the registry answered with a
\* release reports installed exactly when the tool is a key of the record and
\* its bundle is on disk, and hasUpdate exactly when it is installed, a version
\* is recorded and that version differs from the latest one; a tool recorded
\* but not on disk is reported installed = false and hasUpdate = false.  (With
\* no release to compare against, hasUpdate is false.)
C7_HasUpdateFormula ==
    \A p \in Procs :
        StatusReturned(p) /\ KnownTool(frame[p].tool_id) =>
            LET status == ret[p][1]
                recorded == frame[p].tool_id \in DOMAIN load_config
            IN  /\ status.installed = (recorded /\ bundle # None)
                /\ status.installed_version
                      = (IF recorded THEN Some(load_config[frame[p].tool_id]) ELSE None)
                /\ status.latest_version # None =>
                      status.has_update
                          = (/\ status.installed
                             /\ status.installed_version # None
                             /\ status.installed_version # status.latest_version)
                /\ status.latest_version = None => ~status.has_update
                /\ recorded /\ bundle = None =>
                      ~status.installed /\ ~status.has_update

\* the record holds version 1, the bundle is gone from the disk, the registry's
\* latest release is 2, and checkStatus has reported the tool not installed
\* and no update
C7_Witness ==
    /\ StatusReturned(Shell)
    /\ frame[Shell].tool_id = RESOLVE_SYNC
    /\ load_config = Insert(NoTools, RESOLVE_SYNC, <<"1">>)
    /\ bundle = None
    /\ ret[Shell][1].installed_version = Some(<<"1">>)
    /\ ret[Shell][1].latest_version = Some(<<"2">>)
    /\ ~ret[Shell][1].installed
    /\ ~ret[Shell][1].has_update

\* C8: a checkStatus call on a tool id that is not a key of the record and
\* has no bundle on disk reports installed = false and hasUpdate = false,
\* whatever release or error the registry answered with.
C8_AbsentToolNoUpdate ==
    \A p \in Procs :
        StatusReturned(p) /\ frame[p].tool_id \notin DOMAIN load_config
            /\ (KnownTool(frame[p].tool_id) => bundle = None)
        => ~ret[p][1].installed /\ ~ret[p][1].has_update

\* nothing is recorded for the known tool, no bundle is on disk, and
\* checkStatus has returned with a latest version from the registry
C8_Witness ==
    /\ StatusReturned(Shell)
    /\ frame[Shell].tool_id = RESOLVE_SYNC
    /\ RESOLVE_SYNC \notin DOMAIN load_config
    /\ bundle = None
    /\ ret[Shell][1].latest_version = Some(<<"1">>)
    /\ ret[Shell][1].error = None

\* C9: a checkStatus call, for a known or an unknown tool id and whatever the
\* registry answers, leaves config.json, the apps directory, the bundle, the
\* temp directory and the mounted images as they were.
C9_StatusMutatesNothing ==
    [][(\E t \in ToolIds : check_tool_status(Shell, t)) =>
            UNCHANGED <<configFile, appsDir, bundle, tempFiles, volumes>>]_vars

\* checkStatus has returned where config.json cannot be parsed and a bundle is
\* on disk: the file is still the unparseable one
C9_Witness ==
    /\ StatusReturned(Shell)
    /\ frame[Shell].tool_id = RESOLVE_SYNC
    /\ configFile = ConfigCorrupt
    /\ bundle # None

\* C10: every command returns: a call that has not returned a result can take
\* a further step, so no call is aborted or stuck short of Done or Failed.
C10_EveryCallReturns ==
    \A p \in Procs : pc[p] \in Returned \/ ENABLED InstallStep(p)

\* C11: listInstalled returns exactly the tool ids checkStatus reports as
\* installed in the same state: an id is in the result if and only if it is a
\* key of the record, it is a known tool id, and its bundle is on disk.
C11_ListMatchesStatus ==
    \A p \in Procs :
        pc[p] = "Done" /\ frame[p].cmd = "list" =>
            /\ ret[p][1] = {t \in ToolIds : t \in DOMAIN load_config /\ KnownTool(t)
                                                /\ bundle # None}
            /\ \A t \in ToolIds : \A fetched \in FetchOutcomes :
                  t \in ret[p][1] <=> ToolStatusOf(t, fetched).installed

\* the record holds the known tool next to a tool this build does not know,
\* the bundle is on disk, and listInstalled has returned the known tool alone
C11_Witness ==
    /\ pc[Shell] = "Done"
    /\ frame[Shell].cmd = "list"
    /\ DOMAIN load_config = {RESOLVE_SYNC, "other-tool"}
    /\ bundle # None
    /\ ret[Shell] = Some({RESOLVE_SYNC})

\* C12: launch spawns the open process only when the bundle path exists; for
\* an unknown tool id or a missing bundle it returns its failure with nothing
\* spawned; otherwise its result is the outcome of the spawn alone, whatever
\* the record holds; and it leaves the record and the bundle as they were.
C12_LaunchByBundleOnly ==
    [][\A t \in ToolIds :
         launch_tool(Shell, t) =>
            /\ "open" \in Range(trace'[Shell]) <=> KnownTool(t) /\ bundle # None
            /\ ~KnownTool(t) =>
                  ret'[Shell] = Some(ActionResult(FALSE, <<"Unknown tool">>))
            /\ KnownTool(t) /\ bundle = None =>
                  ret'[Shell] = Some(ActionResult(FALSE, <<"App not installed">>))
            /\ KnownTool(t) /\ bundle # None =>
                  ret'[Shell] \in {Some(ActionResult(TRUE, <<"Launched app">>)),
                                   Some(ActionResult(FALSE, <<"Failed to launch">>))}
            /\ UNCHANGED <<configFile, appsDir, bundle, tempFiles, volumes>>]_vars

\* launch has spawned the open process for a bundle that is on disk while the
\* record holds no version for the tool
C12_Witness ==
    /\ pc[Shell] = "Done"
    /\ frame[Shell].cmd = "launch"
    /\ frame[Shell].tool_id = RESOLVE_SYNC
    /\ ret[Shell] = Some(ActionResult(TRUE, <<"Launched app">>))
    /\ trace[Shell] = <<"open">>
    /\ bundle # None
    /\ RESOLVE_SYNC \notin DOMAIN load_config

\* the stages of an install call in the order of the code, and the operation
\* each one issues
StageOrder ==
    <<"EnsureDirs", "Resolving", "Selecting", "Downloading", "RemovingOld",
      "Extracting", "CleaningUp", "FixingUp", "Loading", "Persisting", "Done">>
StageIndex(label) == CHOOSE i \in DOMAIN StageOrder : StageOrder[i] = label
ExtractEvents ==
    {"extract_tar_gz", "extract_zip", "hdiutil attach", "hdiutil info", "cp",
     "hdiutil detach", "cp /Volumes/other", "hdiutil detach /Volumes/other"}
StageOfEvent(e) ==
    CASE e = "ensure_dirs" -> StageIndex("EnsureDirs")
      [] e = "get_latest_release" -> StageIndex("Resolving")
      [] e = "download_file" -> StageIndex("Downloading")
      [] e = "remove_dir_all" -> StageIndex("RemovingOld")
      [] e \in ExtractEvents -> StageIndex("Extracting")
      [] e = "remove_file" -> StageIndex("CleaningUp")
      [] e = "xattr" -> StageIndex("FixingUp")
      [] e = "load_config" -> StageIndex("Loading")
      [] e = "save_config" -> StageIndex("Persisting")

\* C13: an install call goes through its stages in the one order resolve,
\* select, download, remove old, extract, fix up, persist, done; a stage hands
\* on to the next only when it succeeded and otherwise the call ends there
\* (the fix-up always hands on); a failed removal of the old bundle ends the
\* call with no extraction attempted; the record is saved only after an
\* extraction that succeeded.
C13_StagesInOrder ==
    /\ [](\A p \in Procs :
            frame[p].cmd \in InstallCmds =>
               /\ \A i, j \in DOMAIN trace[p] :
                     i < j => /\ StageOfEvent(trace[p][i]) <= StageOfEvent(trace[p][j])
                              /\ StageOfEvent(trace[p][i]) = StageOfEvent(trace[p][j])
                                    => trace[p][i] \in ExtractEvents
               /\ pc[p] = "Failed" /\ ret[p][1].message = <<"Failed to remove existing app">>
                     => Range(trace[p]) \cap ExtractEvents = {}
               /\ pc[p] = "Done" =>
                     \A e \in {"get_latest_release", "download_file", "remove_file",
                                "xattr", "load_config", "save_config"} :
                         e \in Range(trace[p]))
    /\ [][\A p \in Procs :
            pc[p] \notin Returned /\ pc[p] # "Panicked" /\ pc'[p] # pc[p] =>
               /\ \/ pc'[p] = StageOrder[StageIndex(pc[p]) + 1]
                  \/ pc'[p] = "Failed" /\ pc[p] \notin {"FixingUp", "Loading"}
                  \/ pc'[p] = "Panicked" /\ pc[p] = "Extracting"
               /\ pc'[p] = "Selecting" => frame'[p].release # None
               /\ pc'[p] = "Downloading" => frame'[p].asset # None
               /\ pc'[p] = "RemovingOld" => TempFile(p)' \in tempFiles'
               /\ pc'[p] = "Extracting" => bundle' = None
               /\ pc[p] = "RemovingOld" /\ bundle' # None =>
                     /\ pc'[p] = "Failed"
                     /\ Range(trace'[p]) \cap ExtractEvents = {}
               /\ pc'[p] = "FixingUp" => frame[p].result = Some(Ok)
               /\ pc[p] = "Persisting" => frame[p].result = Some(Ok)]_vars

\* an update over an installed bundle has gone through every stage and
\* returned: the operations it issued, in order
C13_Witness ==
    /\ pc[Shell] = "Done"
    /\ frame[Shell].cmd = "update"
    /\ trace[Shell] = <<"ensure_dirs", "get_latest_release", "download_file",
                        "remove_dir_all", "extract_tar_gz", "remove_file", "xattr",
                        "load_config", "save_config">>

\* how many times the call of p has issued the operation e
Count(p, e) == Cardinality({i \in DOMAIN trace[p] : trace[p][i] = e})

\* the extraction of the call of p has succeeded or failed and the call has
\* gone on from there: it stands past the cleanup, or it has returned after an
\* extractor ran or the dispatch found none.  (A call aborted inside the
\* extractor has no extraction result.)
PastExtracting(p) ==
    \/ pc[p] \in {"FixingUp", "Loading", "Persisting", "Done"}
    \/ /\ pc[p] = "Failed"
       /\ \/ Range(trace[p]) \cap ExtractEvents # {}
          \/ ret[p][1].message = <<"Unsupported archive format">>

\* C14: an install call that has reached the extraction stage attempts the
\* deletion of its temp file exactly once, whether the extraction succeeded
\* or failed, before it returns the extraction's error and before the fix-up
\* and the save; whether the deletion succeeded changes nothing in the result.
C14_TempFileDeletedOnce ==
    /\ [](\A p \in Procs :
            frame[p].cmd \in InstallCmds =>
               /\ Count(p, "remove_file") <= 1
               /\ PastExtracting(p) => Count(p, "remove_file") = 1
               /\ \A i, j \in DOMAIN trace[p] :
                     trace[p][i] = "remove_file" /\ trace[p][j] \in {"xattr", "save_config"}
                        => i < j)
    /\ [][\A p \in Procs :
            pc[p] = "CleaningUp" /\ pc'[p] # pc[p] =>
               IF frame[p].result[1].ok
               THEN pc'[p] = "FixingUp"
               ELSE /\ pc'[p] = "Failed"
                    /\ ret'[p] = Some(ActionResult(FALSE, <<frame[p].result[1].error>>))]_vars

\* the extraction of a tar.gz asset has failed, the one attempt to delete the
\* temp file has failed too, and the call has returned the extraction's error
C14_Witness ==
    /\ pc[Shell] = "Failed"
    /\ frame[Shell].cmd = "install"
    /\ ret[Shell] = Some(ActionResult(FALSE, <<"Failed to extract archive">>))
    /\ trace[Shell] = <<"ensure_dirs", "get_latest_release", "download_file",
                        "extract_tar_gz", "remove_file">>
    /\ N_TGZ \in tempFiles

CopyEvents == {Cp(m) : m \in {"own", "other"}}
DetachEvents == {Detach(m) : m \in {"own", "other"}}
CopyErrors == {Err("Failed to copy app: spawn"), Err("Failed to copy app from DMG")}

\* C15: in the disk-image extraction every copy, succeeded or failed, is
\* followed by the detach of the mount point it copied from, and the result is
\* the copy's outcome whatever the detach did; an extraction whose mount-point
\* lookup failed returns its error with no copy attempted.
C15_DetachAfterCopy ==
    /\ [](\A p \in Procs :
            frame[p].cmd \in InstallCmds =>
               /\ \A i \in DOMAIN trace[p] : \A m \in {"own", "other"} :
                     trace[p][i] = Cp(m) =>
                        i + 1 \in DOMAIN trace[p] /\ trace[p][i + 1] = Detach(m)
               /\ pc[p] = "Failed" /\ ret[p][1].message = <<"Failed to find mount point">>
                     => Range(trace[p]) \cap (CopyEvents \cup DetachEvents) = {})
    /\ [][\A p \in Procs :
            pc[p] = "Extracting" /\ pc'[p] = "CleaningUp"
               /\ Range(trace'[p]) \cap CopyEvents # {} =>
               /\ frame'[p].result[1] \in {Ok} \cup CopyErrors
               /\ frame'[p].result[1].ok <=> bundle' # None /\ bundle'[1].whole
               /\ frame'[p].result[1].ok => bundle' # bundle]_vars

\* the copy from the mounted image has failed, the image has been detached
\* all the same, and the call has returned the copy's error
C15_Witness ==
    /\ pc[Shell] = "Failed"
    /\ frame[Shell].cmd = "install"
    /\ ret[Shell] = Some(ActionResult(FALSE, <<"Failed to copy app from DMG">>))
    /\ trace[Shell] = <<"ensure_dirs", "get_latest_release", "download_file",
                        "hdiutil attach", "hdiutil info", "cp", "hdiutil detach",
                        "remove_file">>
    /\ ~attached

\* the stages of an install call up to and including its download
BeforeRemoval == {"EnsureDirs", "Resolving", "Selecting", "Downloading"}

\* C16: the invocation of an install or update call and each of its steps up
\* to and including the download leave the bundle and the record as they were,
\* so that checkStatus reports the same installed and installedVersion after a
\* failure there as before the call; the bundle changes only in the removal
\* and extraction steps of a call whose download has completed.
C16_FailureBeforeRemovalKeepsBundle ==
    /\ [][\A p \in Procs :
            /\ frame'[p].cmd \in InstallCmds
            /\ pc'[p] # pc[p] \/ pc[p] \in Returned
            /\ pc[p] \in Returned \cup BeforeRemoval
            /\ pc'[p] \in BeforeRemoval \cup {"RemovingOld", "Failed"}
            => /\ bundle' = bundle
               /\ \A t \in ToolIds :
                     /\ is_tool_installed(t)' = is_tool_installed(t)
                     /\ get_installed_version(t)' = get_installed_version(t)]_vars
    /\ [][bundle' # bundle =>
            \E p \in Procs :
                /\ pc[p] \in {"RemovingOld", "Extracting"}
                /\ "download_file" \in Range(trace[p])
                /\ TempFile(p) \in tempFiles]_vars
    /\ [](\A p \in Procs :
            pc[p] = "Failed" /\ frame[p].cmd \in InstallCmds
                /\ Range(trace[p]) \cap ({"remove_dir_all"} \cup ExtractEvents) # {}
            => "download_file" \in Range(trace[p]))

\* an update over an installed bundle has failed in its download: the bundle
\* and the recorded version are the ones of before
C16_Witness ==
    /\ pc[Shell] = "Failed"
    /\ frame[Shell].cmd = "update"
    /\ ret[Shell] = Some(ActionResult(FALSE, <<"Download failed">>))
    /\ bundle = Some([tag |-> TAG_2, whole |-> TRUE])
    /\ is_tool_installed(RESOLVE_SYNC)
    /\ get_installed_version(RESOLVE_SYNC) = Some(<<"2">>)

\* C17: between calls, a tool id this build knows that has a version in the
\* record has its application directory on disk.
C17_RecordImpliesBundle ==
    (\A p \in Procs : pc[p] \in Returned) =>
        \A t \in DOMAIN load_config : KnownTool(t) => AppPathExists

\* C18: when an install or update call returns, with success or with a
\* failure, the temp file it created no longer exists.  (A call that returns
\* from its download created the file if the file was not there before.)
C18_NoTempFileLeft ==
    [][\A p \in Procs :
         /\ frame[p].cmd \in InstallCmds
         /\ pc[p] \notin Returned
         /\ pc'[p] \in {"Done", "Failed"}
         /\ frame[p].asset # None
         /\ pc[p] = "Downloading" => TempFile(p) \notin tempFiles
         => TempFile(p) \notin tempFiles']_vars

\* C19: once two concurrent install calls of the same tool have both
\* returned, if one of them reported success then the bundle is on disk, whole,
\* and the record holds the version of the release whose files are on disk.
C19_ConcurrentInstallsConsistent ==
    /\ \A p \in Procs : pc[p] \in {"Done", "Failed"}
    /\ \E p \in Procs : pc[p] = "Done"
    => /\ bundle # None
       /\ bundle[1].whole
       /\ RESOLVE_SYNC \in DOMAIN load_config
       /\ load_config[RESOLVE_SYNC] = Stripped(bundle[1].tag)

\* C20: a disk-image extraction that has returned after a successful attach
\* (the mount-info query is issued only then) has detached the image it
\* attached, and has copied from and detached no other volume.
C20_AttachMatchedByDetach ==
    \A p \in Procs :
        /\ frame[p].cmd \in InstallCmds
        /\ pc[p] \in {"CleaningUp", "FixingUp", "Loading", "Persisting", "Done", "Failed"}
        /\ "hdiutil info" \in Range(trace[p])
        => /\ Detach("own") \in Range(trace[p])
           /\ Range(trace[p]) \cap {Cp("other"), Detach("other")} = {}

\* the format of an asset find_app_asset can select, by the suffix it was
\* selected for
FormatOf(name) ==
    IF EndsWith(name, S_APP_TAR_GZ) THEN "tar.gz"
    ELSE IF EndsWith(name, S_APP_ZIP) THEN "zip"
    ELSE "dmg"

\* the operations with which the extractor of a format starts
FirstEventOf(format) ==
    CASE format = "tar.gz" -> "extract_tar_gz"
      [] format = "zip" -> "extract_zip"
      [] format = "dmg" -> "hdiutil attach"

\* C21: every asset the selection stage hands on is dispatched to the
\* extractor of its own format (.app.tar.gz to tar.gz, .app.zip to zip, .dmg
\* to the disk image), the extraction stage runs that extractor, and no
\* install call ends with "Unsupported archive format".
C21_DispatchTotal ==
    /\ [](\A p \in Procs :
            /\ frame[p].asset # None =>
                  Extractor(frame[p].asset[1].name) = FormatOf(frame[p].asset[1].name)
            /\ frame[p].result # Some(Err("Unsupported archive format"))
            /\ frame[p].cmd \in InstallCmds /\ pc[p] = "Failed" =>
                  ret[p][1].message # <<"Unsupported archive format">>)
    /\ [][\A p \in Procs :
            pc[p] = "Extracting" /\ pc'[p] = "CleaningUp" =>
               /\ Len(trace'[p]) > Len(trace[p])
               /\ trace'[p][Len(trace[p]) + 1] = FirstEventOf(FormatOf(TempFile(p)))]_vars

\* a release whose one asset is a disk image has been selected, downloaded
\* and handed to the disk-image extractor, which has run to its end
C21_Witness ==
    /\ pc[Shell] = "CleaningUp"
    /\ frame[Shell].asset = Some(Asset(N_DMG, "a"))
    /\ frame[Shell].result = Some(Ok)
    /\ trace[Shell] = <<"ensure_dirs", "get_latest_release", "download_file",
                        "hdiutil attach", "hdiutil info", "cp", "hdiutil detach">>

=============================================================================
